---- MODULE Spec2Model ----
(***************************************************************************)
(* A model of the screen-buffer core of the terminal emulator:             *)
(*   - FairMutex            (alacritty_terminal/src/sync.rs)               *)
(*   - Row<Cell>            (alacritty_terminal/src/grid/row.rs,           *)
(*                           alacritty_terminal/src/term/cell.rs)          *)
(*   - NonzeroCharId store  (src/term/nonzero_chars.rs, src/term/cell.rs)  *)
(*   - color List           (alacritty/src/display/color.rs)               *)
(*   - Cell::as_escape      (alacritty_terminal/src/term/cell.rs)          *)
(*   - LineLength           (alacritty_terminal/src/term/cell.rs,          *)
(*                           src/term/cell.rs)                             *)
(*   - ExtraCharStorage     (src/term/extra_chars.rs)                      *)
(*   - Cell::push_extra     (alacritty_terminal/src/term/cell.rs)          *)
(* Each component has its own specification (SpecSync, SpecRow, SpecStore, *)
(* SpecPalette, SpecEscape, SpecLine, SpecExtra, SpecPush); the variables  *)
(* of the other components stay at their initial value.                    *)
(***************************************************************************)
EXTENDS Integers, Sequences, FiniteSets, TLC

VARIABLES
    \* ---- FairMutex (sync.rs) ----
    pc,        \* per thread: "idle" | "parked" | "woken" | "holding"
    locked,    \* the LOCKED bit of the parking_lot::Mutex in FairMutex.data
    parked,    \* the parking_lot queue of threads parked on the mutex (FIFO)
    via,       \* per thread: how the guard it holds was obtained ("none" if
               \* it holds none)
    tried,     \* the most recent try_lock() call: <<thread, result>>
    ahead      \* history: per thread without a guard, the threads that were
               \* blocked in lock() when it last released and have not
               \* acquired since

VARIABLES
    \* ---- Row<Cell> (grid/row.rs) ----
    row,       \* the Row: [inner, columns, template]
    prev,      \* history: the Row before the last operation
    op,        \* history: the last operation and its arguments
    ret,       \* what the last operation returned (or that it panicked)
    sized      \* history: the column count given to the most recent
               \* new/grow/shrink while only grow, shrink, index writes and
               \* iter_mut have been applied since creation; -1 afterwards

VARIABLES
    \* ---- NonzeroCharId and its owners (src/term) ----
    nonzero_chars,  \* the NONZERO_CHARS map: handle -> extra chars
    owners,         \* the cells that may own a NonzeroCharId, by slot
    poisoned,       \* whether the Mutex around NONZERO_CHARS is poisoned
    panics,         \* number of threads that have panicked
    did             \* history: the last operation on a cell and its outcome

VARIABLES
    \* ---- color List (display/color.rs) ----
    list,      \* the List: [active, default]
    applied,   \* history: the Colors of the most recent update_defaults
    pinned,    \* history: per index, the color of a set that no reset has
               \* followed (<<color>>), or <<>>
    palop      \* history: the last operation on the List and its arguments

VARIABLES
    \* ---- Cell::as_escape (term/cell.rs) ----
    esc        \* a call of as_escape: [called, self, last, before, buf],
               \* the arguments, the buffer before the call and after it

VARIABLES
    \* ---- LineLength for Row<Cell> (term/cell.rs) ----
    line       \* a call of line_length: [called, row, length, old_length],
               \* the row and what both versions of line_length return

VARIABLES
    \* ---- ExtraCharStorage (src/term/extra_chars.rs) ----
    storage,   \* the HashMap in STORAGE.storage: key -> chars
    holder,    \* the thread that holds the Mutex around the map, 0 if it
               \* is free, -1 if it is poisoned
    step,      \* per thread: "idle", or where it is in put, get or remove
    local,     \* per thread: the arguments and locals of its call
    put_ret    \* history: the last put that returned: [thread, key,
               \* before], the map before its insert

VARIABLES
    \* ---- Cell::push_extra, Cell::chars (term/cell.rs) ----
    pushing    \* a cell and the pushes made to it: [cell, start, pushed,
               \* before, c]

syncVars == <<pc, locked, parked, via, tried, ahead>>
rowVars == <<row, prev, op, ret, sized>>
storeVars == <<nonzero_chars, owners, poisoned, panics, did>>

paletteVars == <<list, applied, pinned, palop>>

escapeVars == <<esc>>
lineVars == <<line>>
extraVars == <<storage, holder, step, local, put_ret>>
pushVars == <<pushing>>

nonSyncVars ==
    <<rowVars, storeVars, paletteVars, escapeVars, lineVars,
      extraVars, pushVars>>
nonRowVars ==
    <<syncVars, storeVars, paletteVars, escapeVars, lineVars,
      extraVars, pushVars>>
nonStoreVars ==
    <<syncVars, rowVars, paletteVars, escapeVars, lineVars,
      extraVars, pushVars>>
nonPaletteVars ==
    <<syncVars, rowVars, storeVars, escapeVars, lineVars,
      extraVars, pushVars>>
nonEscapeVars ==
    <<syncVars, rowVars, storeVars, paletteVars, lineVars,
      extraVars, pushVars>>
nonLineVars ==
    <<syncVars, rowVars, storeVars, paletteVars, escapeVars,
      extraVars, pushVars>>
nonExtraVars ==
    <<syncVars, rowVars, storeVars, paletteVars, escapeVars, lineVars,
      pushVars>>
nonPushVars ==
    <<syncVars, rowVars, storeVars, paletteVars, escapeVars, lineVars,
      extraVars>>

vars ==
    <<syncVars, rowVars, storeVars, paletteVars, escapeVars, lineVars,
      extraVars, pushVars>>

----------------------------------------------------------------------------
(***************************************************************************)
(* FairMutex<T> { data: parking_lot::Mutex<T> }                            *)
(***************************************************************************)

\* Number of threads sharing the FairMutex (the spec names an input thread
\* and a render thread; a third one exercises the queue).
NThreads == 3

Threads == 1..NThreads

\* Threads that have called lock() and have not returned from it.
Blocked == {t \in Threads : pc[t] \in {"parked", "woken"}}

\* Threads that hold a MutexGuard.
Holders == {t \in Threads : pc[t] = "holding"}

SyncStart ==
    /\ pc = [t \in Threads |-> "idle"]
    /\ locked = FALSE
    /\ parked = <<>>
    /\ via = [t \in Threads |-> "none"]
    /\ tried = <<0, "none">>
    /\ ahead = [t \in Threads |-> {}]

\* Bookkeeping when thread t obtains a guard through `how`.
Acquire(t, how) ==
    /\ pc' = [pc EXCEPT ![t] = "holding"]
    /\ via' = [via EXCEPT ![t] = how]
    /\ ahead' = [u \in Threads |-> IF u = t THEN {} ELSE ahead[u] \ {t}]

\* FairMutex::lock: self.data.lock().  The fast path takes the mutex when
\* the LOCKED bit is clear (whether or not threads are parked); otherwise
\* the caller parks at the tail of the queue.
Lock(t) ==
    /\ pc[t] = "idle"
    /\ IF ~locked
         THEN /\ locked' = TRUE
              /\ Acquire(t, "lock")
              /\ UNCHANGED parked
         ELSE /\ pc' = [pc EXCEPT ![t] = "parked"]
              /\ parked' = Append(parked, t)
              /\ UNCHANGED <<locked, via, ahead>>
    /\ UNCHANGED <<tried, nonSyncVars>>

\* try_lock as it would be if it were lock() with an Option around it: the
\* caller waits for the mutex when it is taken.
TryLockWaiting(t) ==
    /\ pc[t] = "idle"
    /\ IF ~locked
         THEN /\ locked' = TRUE
              /\ Acquire(t, "try_lock")
              /\ tried' = <<t, "Some">>
              /\ UNCHANGED parked
         ELSE /\ tried' = <<t, "None">>
              /\ pc' = [pc EXCEPT ![t] = "parked"]
              /\ parked' = Append(parked, t)
              /\ UNCHANGED <<locked, via, ahead>>
    /\ UNCHANGED nonSyncVars

\* FairMutex::try_lock: self.data.try_lock().  Never parks.
TryLock(t) ==
    /\ pc[t] = "idle"
    /\ IF ~locked
         THEN /\ locked' = TRUE
              /\ Acquire(t, "try_lock")
              /\ tried' = <<t, "Some">>
         ELSE /\ tried' = <<t, "None">>
              /\ UNCHANGED <<pc, locked, via, ahead>>
    /\ UNCHANGED <<parked, nonSyncVars>>

\* Dropping the MutexGuard returned by lock()/try_lock(): parking_lot's
\* unlock.  With nobody parked the LOCKED bit is cleared.  Otherwise the
\* head of the queue is unparked: normally the bit is cleared and the woken
\* thread has to retry (fair = FALSE); when the mutex's eventual-fairness
\* timer has expired the lock is handed to it directly (fair = TRUE).
Unlock(t, fair) ==
    /\ pc[t] = "holding"
    /\ IF parked = <<>>
         THEN /\ ~fair
              /\ locked' = FALSE
              /\ pc' = [pc EXCEPT ![t] = "idle"]
              /\ ahead' = [ahead EXCEPT ![t] = Blocked]
              /\ via' = [via EXCEPT ![t] = "none"]
              /\ UNCHANGED parked
         ELSE LET u == Head(parked) IN
              /\ parked' = Tail(parked)
              /\ IF fair
                   THEN /\ locked' = TRUE
                        /\ pc' = [pc EXCEPT ![t] = "idle", ![u] = "holding"]
                        /\ via' = [via EXCEPT ![t] = "none", ![u] = "lock"]
                        /\ ahead' = [v \in Threads |->
                                        IF v = t THEN Blocked \ {u}
                                        ELSE IF v = u THEN {}
                                        ELSE ahead[v] \ {u}]
                   ELSE /\ locked' = FALSE
                        /\ pc' = [pc EXCEPT ![t] = "idle", ![u] = "woken"]
                        /\ ahead' = [ahead EXCEPT ![t] = Blocked]
                        /\ via' = [via EXCEPT ![t] = "none"]
    /\ UNCHANGED <<tried, nonSyncVars>>

\* Retry as it would be if a woken thread took every wake-up for a hand-off.
RetryAssumingHandoff(t) ==
    /\ pc[t] = "woken"
    /\ locked' = TRUE
    /\ Acquire(t, "lock")
    /\ UNCHANGED <<parked, tried, nonSyncVars>>

\* A thread woken inside lock() retries: it takes the mutex if the LOCKED
\* bit is clear and parks again (at the tail) if somebody took it meanwhile.
Retry(t) ==
    /\ pc[t] = "woken"
    /\ IF ~locked
         THEN /\ locked' = TRUE
              /\ Acquire(t, "lock")
              /\ UNCHANGED parked
         ELSE /\ pc' = [pc EXCEPT ![t] = "parked"]
              /\ parked' = Append(parked, t)
              /\ UNCHANGED <<locked, via, ahead>>
    /\ UNCHANGED <<tried, nonSyncVars>>

NextSync ==
    \/ \E t \in Threads : Lock(t)
    \/ \E t \in Threads : TryLock(t)
    \/ \E t \in Threads, fair \in BOOLEAN : Unlock(t, fair)
    \/ \E t \in Threads : Retry(t)

----------------------------------------------------------------------------
(***************************************************************************)
(* Cell (alacritty_terminal/src/term/cell.rs): the element type of Row.    *)
(***************************************************************************)

\* Maximum number of zerowidth characters which will be stored per cell.
MAX_ZEROWIDTH_CHARS == 5

default_extra == [i \in 1..MAX_ZEROWIDTH_CHARS |-> " "]

\* Cell::new(c, fg, bg)
Cell_new(c, fg, bg) ==
    [c |-> c, fg |-> fg, bg |-> bg, flags |-> {}, extra |-> default_extra]

\* Cell::default()
DefaultCell == Cell_new(" ", "Foreground", "Background")

\* impl GridCell for Cell: is_empty
Cell_is_empty(cell) ==
    /\ (cell.c = " " \/ cell.c = "\t")
    /\ cell.extra[1] = " "
    /\ cell.bg = "Background"
    /\ cell.fg = "Foreground"
    /\ cell.flags \cap {"INVERSE", "UNDERLINE", "STRIKEOUT", "WRAPLINE",
                        "WIDE_CHAR_SPACER"} = {}

\* The cells the model writes: a blank, a letter, a tab (empty, but not the
\* default cell) and a blank on a coloured background (not empty).
Letter == Cell_new("a", "Foreground", "Background")
TabCell == Cell_new("\t", "Foreground", "Background")
Tinted == Cell_new(" ", "Foreground", "Indexed1")

CellValues == {DefaultCell, Letter, TabCell, Tinted}

\* The templates rows are created and reset with.
TemplateValues == {DefaultCell, Tinted}

----------------------------------------------------------------------------
(***************************************************************************)
(* Row<T> (alacritty_terminal/src/grid/row.rs) as pure functions on Row    *)
(* values; inner is 1-based here, columns are 0-based as in the source.    *)
(***************************************************************************)

\* Largest column count of a row, and longest vector handed to append.
MaxCols == 3
MaxAppend == 2

\* Return values.
Unit == [kind |-> "unit", cells |-> <<>>]
None == [kind |-> "None", cells |-> <<>>]
Some(cells) == [kind |-> "Some", cells |-> cells]
Vec(cells) == [kind |-> "Vec", cells |-> cells]
Panic(site) == [kind |-> "panic", cells |-> <<>>, site |-> site]

\* Row::new
Row_new(columns, template) ==
    [inner |-> <<>>, columns |-> columns, template |-> template]

\* len() as it would be if it reported the backing length.
Row_len_backing(r) == Len(r.inner)

\* Row::len
Row_len(r) == r.columns

\* Index<Column>: self.inner.get(index.0).unwrap_or(&self.template)
index(r, c) == IF c < Len(r.inner) THEN r.inner[c + 1] ELSE r.template

\* iter().rposition(|c| !c.is_empty()).map(|i| i + 1).unwrap_or(0)
rposition_plus_one(cells) ==
    LET nonempty == {i \in 1..Len(cells) : ~Cell_is_empty(cells[i])}
    IN  IF nonempty = {} THEN 0
        ELSE CHOOSE i \in nonempty : \A j \in nonempty : j <= i

\* Row::occupied
occupied(r) == rposition_plus_one(r.inner)

\* is_empty as it would be if it looked at every column of the row.
Row_is_empty_by_columns(r) ==
    \A c \in 0..(r.columns - 1) : Cell_is_empty(index(r, c))

\* Row::is_empty
Row_is_empty(r) == \A i \in 1..Len(r.inner) : Cell_is_empty(r.inner[i])

\* Row::fill: make sure the raw vector has at least `size` elements.
fill(r, size) ==
    IF Len(r.inner) < size /\ size <= r.columns
      THEN [r EXCEPT !.inner =
                r.inner \o [i \in 1..(size - Len(r.inner)) |-> r.template]]
      ELSE r

\* shrink as it would be without the split of the backing storage.
shrink_keeping_cells(r, cols) ==
    [row |-> [r EXCEPT !.columns = cols], ret |-> None]

\* shrink as it would be without the truncation of the removed cells.
shrink_untrimmed(r, cols) ==
    IF Len(r.inner) <= cols
      THEN [row |-> [r EXCEPT !.columns = cols], ret |-> None]
      ELSE [row |-> [r EXCEPT !.columns = cols,
                              !.inner = SubSeq(r.inner, 1, cols)],
            ret |-> Some(SubSeq(r.inner, cols + 1, Len(r.inner)))]

\* Row::shrink: the row afterwards and the Option<Vec<T>> returned.
shrink(r, cols) ==
    LET r1 == [r EXCEPT !.columns = cols] IN
    IF Len(r.inner) <= cols
      THEN [row |-> r1, ret |-> None]
      ELSE LET new_row == SubSeq(r.inner, cols + 1, Len(r.inner))
               kept == SubSeq(r.inner, 1, cols)
               idx == rposition_plus_one(new_row)
               truncated == SubSeq(new_row, 1, idx)
           IN  [row |-> [r1 EXCEPT !.inner = kept],
                ret |-> IF truncated = <<>> THEN None ELSE Some(truncated)]

\* Row::grow
grow(r, cols) == [r EXCEPT !.columns = cols]

\* Row::reset
reset(r, template) == [r EXCEPT !.template = template, !.inner = <<>>]

\* Row::reset_from: Vec::truncate(at) keeps the first `at` elements and does
\* nothing when `at` is not below the length.
reset_from(r, at, template) ==
    [r EXCEPT !.template = template,
              !.inner = IF at < Len(r.inner) THEN SubSeq(r.inner, 1, at)
                        ELSE r.inner]

\* Row::last
last(r) ==
    IF r.columns = 0 THEN None ELSE Some(<<index(r, r.columns - 1)>>)

\* Row::last_mut: the row afterwards and the Option<&mut T> returned.
last_mut(r) ==
    LET r1 == fill(r, r.columns) IN
    [row |-> r1,
     ret |-> IF r1.inner = <<>> THEN None
             ELSE Some(<<r1.inner[Len(r1.inner)]>>)]

\* Row::iter_mut: the row afterwards (the iterator runs over all of inner).
iter_mut(r) == fill(r, r.columns)

\* IndexMut<Column> as it would be if it materialized the whole row.
index_mut_filling_row(r, c, cell) ==
    LET r1 == fill(r, r.columns) IN
    [r1 EXCEPT !.inner = [r1.inner EXCEPT ![c + 1] = cell]]

\* IndexMut<Column>, followed by the caller's write of `cell` through the
\* reference; the caller indexes a column below len().
index_mut(r, c, cell) ==
    LET r1 == fill(r, c + 1) IN
    [r1 EXCEPT !.inner = [r1.inner EXCEPT ![c + 1] = cell]]

Min(a, b) == IF a <= b THEN a ELSE b
Max(a, b) == IF a >= b THEN a ELSE b

\* front_split_off as it would be without materializing the split-off
\* columns first.
front_split_off_unfilled(r, at) ==
    [row |-> [r EXCEPT !.columns = r.columns - at,
                       !.inner = SubSeq(r.inner, at + 1, Len(r.inner))],
     ret |-> Vec(SubSeq(r.inner, 1, Min(at, Len(r.inner))))]

\* front_split_off beyond len() as it would be if the split point were
\* clamped to the row's length instead of panicking.
front_split_off_clamped(r, at, overflow_checks) ==
    LET r1 == fill(r, r.columns) IN
    [row |-> [r1 EXCEPT !.columns = 0, !.inner = <<>>], ret |-> Vec(r1.inner)]

\* Row::front_split_off, for at <= len(): the row afterwards and the Vec<T>
\* returned.
front_split_off(r, at) ==
    LET r1 == fill(r, Min(r.columns, at))
        split == SubSeq(r1.inner, at + 1, Len(r1.inner))
    IN  [row |-> [r1 EXCEPT !.columns = r1.columns - at, !.inner = split],
         ret |-> Vec(SubSeq(r1.inner, 1, at))]

\* Row::front_split_off, for at > len() ("Panics if at > self.len()"): the
\* row is filled to its width, then `self.columns -= at` panics where
\* overflow checks are compiled in, and where they are not the wrapped
\* subtraction is followed by the panic of Vec::split_off(at), at being
\* beyond the vector's length.  The row is not used after the panic; the
\* model keeps its filled state.
front_split_off_panic(r, at, overflow_checks) ==
    [row |-> fill(r, Min(r.columns, at)),
     ret |-> Panic(IF overflow_checks THEN "subtract" ELSE "split_off")]

\* Row::append
append(r, vec) ==
    LET inner == r.inner \o vec IN
    [r EXCEPT !.inner = inner, !.columns = Max(Len(inner), r.columns)]

\* append_front as it would be if it added the cells at the back.
append_front_at_back(r, vec) ==
    LET inner == r.inner \o vec IN
    [r EXCEPT !.inner = inner, !.columns = Max(Len(inner), r.columns)]

\* Row::append_front
append_front(r, vec) ==
    LET inner == vec \o r.inner IN
    [r EXCEPT !.inner = inner, !.columns = Max(Len(inner), r.columns)]

----------------------------------------------------------------------------
(***************************************************************************)
(* The Row operations as actions on one row.                               *)
(***************************************************************************)

Op(name, n, cell, vec) == [name |-> name, n |-> n, cell |-> cell, vec |-> vec]

\* Vectors of at most MaxAppend cells.
Vectors == UNION {[1..k -> CellValues] : k \in 0..MaxAppend}

\* The operations that leave `sized` meaningful.
Resized(n) == IF sized = -1 THEN -1 ELSE n

RowStart(columns, template) ==
    /\ row = Row_new(columns, template)
    /\ prev = row
    /\ op = Op("new", columns, template, <<>>)
    /\ ret = Unit
    /\ sized = columns

\* No operation follows a panic.
Running == ret.kind # "panic"

Did(name, n, cell, vec, r, result) ==
    /\ Running
    /\ prev' = row
    /\ op' = Op(name, n, cell, vec)
    /\ row' = r
    /\ ret' = result
    /\ UNCHANGED nonRowVars

Shrink(cols) ==
    /\ Did("shrink", cols, DefaultCell, <<>>,
           shrink(row, cols).row, shrink(row, cols).ret)
    /\ sized' = Resized(cols)

\* Rows are grown to a larger column count.
Grow(cols) ==
    /\ cols > row.columns
    /\ Did("grow", cols, DefaultCell, <<>>, grow(row, cols), Unit)
    /\ sized' = Resized(cols)

Reset(template) ==
    /\ Did("reset", 0, template, <<>>, reset(row, template), Unit)
    /\ sized' = -1

ResetFrom(at, template) ==
    /\ Did("reset_from", at, template, <<>>,
           reset_from(row, at, template), Unit)
    /\ sized' = -1

LastMut ==
    /\ Did("last_mut", 0, DefaultCell, <<>>,
           last_mut(row).row, last_mut(row).ret)
    /\ sized' = -1

IterMut ==
    /\ Did("iter_mut", 0, DefaultCell, <<>>, iter_mut(row), Unit)
    /\ UNCHANGED sized

\* row.is_empty()
IsEmpty ==
    /\ Did("is_empty", 0, DefaultCell, <<>>, row,
           [kind |-> "bool", cells |-> <<>>, value |-> Row_is_empty(row)])
    /\ UNCHANGED sized

\* A read of row[Column(c)], at any column.
Index(c) ==
    /\ Did("index", c, DefaultCell, <<>>, row, Vec(<<index(row, c)>>))
    /\ UNCHANGED sized

IndexMut(c, cell) ==
    /\ c < Row_len(row)
    /\ Did("index_mut", c, cell, <<>>, index_mut(row, c, cell), Unit)
    /\ UNCHANGED sized

FrontSplitOff(at) ==
    /\ at <= Row_len(row)
    /\ Did("front_split_off", at, DefaultCell, <<>>,
           front_split_off(row, at).row, front_split_off(row, at).ret)
    /\ sized' = -1

FrontSplitOffPanic(at, overflow_checks) ==
    /\ at > Row_len(row)
    /\ Did("front_split_off", at, DefaultCell, <<>>,
           front_split_off_panic(row, at, overflow_checks).row,
           front_split_off_panic(row, at, overflow_checks).ret)
    /\ sized' = -1

RowAppend(vec) ==
    /\ Len(row.inner) + Len(vec) <= MaxCols
    /\ Did("append", 0, DefaultCell, vec, append(row, vec), Unit)
    /\ sized' = -1

RowAppendFront(vec) ==
    /\ Len(row.inner) + Len(vec) <= MaxCols
    /\ Did("append_front", 0, DefaultCell, vec, append_front(row, vec), Unit)
    /\ sized' = -1

NextRow ==
    \/ \E cols \in 0..MaxCols : Shrink(cols)
    \/ \E cols \in 0..MaxCols : Grow(cols)
    \/ \E t \in TemplateValues : Reset(t)
    \/ \E at \in 0..MaxCols, t \in TemplateValues : ResetFrom(at, t)
    \/ LastMut
    \/ IterMut
    \/ IsEmpty
    \/ \E c \in 0..MaxCols : Index(c)
    \/ \E c \in 0..(MaxCols - 1), cell \in CellValues : IndexMut(c, cell)
    \/ \E at \in 0..MaxCols : FrontSplitOff(at)
    \/ \E at \in 0..(MaxCols + 1), checks \in BOOLEAN :
           FrontSplitOffPanic(at, checks)
    \/ \E vec \in Vectors : RowAppend(vec)
    \/ \E vec \in Vectors : RowAppendFront(vec)

----------------------------------------------------------------------------
(***************************************************************************)
(* NonzeroCharId (src/term/nonzero_chars.rs) and the Cell that owns one    *)
(* (src/term/cell.rs).  Every operation on the map runs under the map's    *)
(* own Mutex from its first to its last access, so each is one step.  A    *)
(* panic unwinds the thread that ran the operation.  The panic of Drop     *)
(* comes before the map is locked; the panic of new comes with the map     *)
(* locked and poisons the Mutex, and every later lock().expect(..) panics. *)
(***************************************************************************)

\* Number of owners, and the largest handle (u16::max_value() in the source,
\* scaled down so that the handle space can fill up).
NCells == 3
MaxHandle == 3

\* Longest sequence of extra chars stored for one cell.
MaxExtraLen == 2

Slots == 1..NCells
Handles == 1..MaxHandle

\* The extra (zerowidth) chars the model writes; the primary char of every
\* cell is a space.
ExtraChars == {"x"}

\* Cell { extra: None, c, .. }: extra is 0 for None, else the handle.
OldCell(c, extra) == [live |-> TRUE, c |-> c, extra |-> extra]

\* A slot without a cell.
NoCell == [live |-> FALSE, c |-> " ", extra |-> 0]

\* The handles owned by the cells.
Held == {owners[i].extra : i \in {j \in Slots : owners[j].live}} \ {0}

\* The handles with an entry in the map.
Keys == DOMAIN nonzero_chars

\* The scan of NonzeroCharId::new over the sorted keys, from new_index on:
\* the first index that is not a key, or the panic when the key
\* u16::max_value() is reached.
RECURSIVE new_scan(_, _)
new_scan(keys, new_index) ==
    IF new_index \notin keys THEN [panic |-> FALSE, index |-> new_index]
    ELSE IF new_index = MaxHandle THEN [panic |-> TRUE, index |-> new_index]
    ELSE new_scan(keys, new_index + 1)

\* NonzeroCharId::new
NonzeroCharId_new(map) == new_scan(DOMAIN map, 1)

\* lock.insert(NonzeroCharId(new_index), Vec::new())
insert(map, key, value) ==
    [h \in DOMAIN map \cup {key} |-> IF h = key THEN value ELSE map[h]]

\* NonzeroCharId::put_char
put_char(map, id, c) ==
    IF id \in DOMAIN map THEN [map EXCEPT ![id] = Append(map[id], c)]
    ELSE map

\* NonzeroCharId::get_chars
get_chars(map, id) == IF id \in DOMAIN map THEN map[id] ELSE <<>>

\* impl Drop for NonzeroCharId: panic!("NOOO") comes first; the removal
\* after it is never reached.  The map afterwards and whether it panicked.
NonzeroCharId_drop(map, id) == [map |-> map, panic |-> TRUE]

\* impl Clone for Cell as a plain copy of all the fields would have it.
Cell_clone_copying(cell) == OldCell(cell.c, cell.extra)

\* impl Clone for Cell: a copy of the cell with `extra` written to None.
Cell_clone(cell) == OldCell(cell.c, 0)

\* impl Clone for ExtraCharStorageIndex: the deep copy is commented out,
\* the clone is ExtraCharStorageIndex(None) (0 here) for every index.
ExtraCharStorageIndex_clone(idx) == 0

\* The record of an operation: the handle it allocated (0 if none), the
\* handles the cells owned before an allocation, its outcome: "ok", or
\* the panic that ended it, and for a clone of a cell that owns a handle
\* the slot it wrote (0 otherwise).
Done(allocated, outcome) ==
    [allocated |-> allocated,
     held |-> IF allocated = 0 THEN {} ELSE Held, outcome |-> outcome,
     clone |-> 0]

\* The record of a clone of the cell in slot j into slot i.
DoneClone(i, j, outcome) ==
    [Done(0, outcome) EXCEPT !.clone = IF owners[j].extra # 0 THEN i ELSE 0]

StoreStart ==
    /\ nonzero_chars = <<>>
    /\ owners = [i \in Slots |-> OldCell(" ", 0)]
    /\ poisoned = FALSE
    /\ panics = 0
    /\ did = [allocated |-> 0, held |-> {}, outcome |-> "ok", clone |-> 0]

\* Some thread is left to run an operation.
ThreadLeft == panics < NThreads

\* Cell::default() into a free slot.
NewCell(i) ==
    /\ ThreadLeft
    /\ ~owners[i].live
    /\ owners' = [owners EXCEPT ![i] = OldCell(" ", 0)]
    /\ did' = Done(0, "ok")
    /\ UNCHANGED <<nonzero_chars, poisoned, panics, nonStoreVars>>

\* Cell::put_extra: allocates an id on first use, then stores the char.
\* Both NonzeroCharId::new and put_char start with lock().expect(..).
PutExtra(i, c) ==
    /\ ThreadLeft
    /\ owners[i].live
    /\ Len(get_chars(nonzero_chars, owners[i].extra)) < MaxExtraLen
    /\ IF poisoned
         THEN /\ panics' = panics + 1
              /\ did' = Done(0, "poisoned")
              /\ UNCHANGED <<nonzero_chars, owners, poisoned>>
         ELSE IF owners[i].extra = 0
         THEN LET new == NonzeroCharId_new(nonzero_chars) IN
              IF new.panic
                THEN /\ panics' = panics + 1
                     /\ poisoned' = TRUE
                     /\ did' = Done(0, "exceeded maximum")
                     /\ UNCHANGED <<nonzero_chars, owners>>
                ELSE /\ nonzero_chars' =
                          put_char(insert(nonzero_chars, new.index, <<>>),
                                   new.index, c)
                     /\ owners' = [owners EXCEPT ![i].extra = new.index]
                     /\ did' = Done(new.index, "ok")
                     /\ UNCHANGED <<poisoned, panics>>
         ELSE /\ nonzero_chars' = put_char(nonzero_chars, owners[i].extra, c)
              /\ did' = Done(0, "ok")
              /\ UNCHANGED <<owners, poisoned, panics>>
    /\ UNCHANGED nonStoreVars

\* Cell::reset: *self = template.clone().  The old value of the cell is
\* dropped, its NonzeroCharId with it; the clone is in place whether or not
\* that drop unwinds.
ResetCell(i, j) ==
    /\ ThreadLeft
    /\ i # j
    /\ owners[i].live /\ owners[j].live
    /\ owners' = [owners EXCEPT ![i] = Cell_clone(owners[j])]
    /\ IF owners[i].extra = 0
         THEN /\ did' = DoneClone(i, j, "ok")
              /\ UNCHANGED <<nonzero_chars, poisoned, panics>>
         ELSE LET dropped == NonzeroCharId_drop(nonzero_chars, owners[i].extra)
              IN  /\ nonzero_chars' = dropped.map
                  /\ panics' = IF dropped.panic THEN panics + 1 ELSE panics
                  /\ did' = DoneClone(i, j, IF dropped.panic THEN "NOOO"
                                                  ELSE "ok")
                  /\ UNCHANGED poisoned
    /\ UNCHANGED nonStoreVars

\* A cell goes out of scope.
DropCell(i) ==
    /\ ThreadLeft
    /\ owners[i].live
    /\ owners' = [owners EXCEPT ![i] = NoCell]
    /\ IF owners[i].extra = 0
         THEN /\ did' = Done(0, "ok")
              /\ UNCHANGED <<nonzero_chars, poisoned, panics>>
         ELSE LET dropped == NonzeroCharId_drop(nonzero_chars, owners[i].extra)
              IN  /\ nonzero_chars' = dropped.map
                  /\ panics' = IF dropped.panic THEN panics + 1 ELSE panics
                  /\ did' = Done(0, IF dropped.panic THEN "NOOO" ELSE "ok")
                  /\ UNCHANGED poisoned
    /\ UNCHANGED nonStoreVars

\* Cell::clone into a free slot.
CloneCell(i, j) ==
    /\ ThreadLeft
    /\ owners[i].live /\ ~owners[j].live
    /\ owners' = [owners EXCEPT ![j] = Cell_clone(owners[i])]
    /\ did' = DoneClone(j, i, "ok")
    /\ UNCHANGED <<nonzero_chars, poisoned, panics, nonStoreVars>>

NextStore ==
    \/ \E i \in Slots : NewCell(i)
    \/ \E i \in Slots, c \in ExtraChars : PutExtra(i, c)
    \/ \E i, j \in Slots : ResetCell(i, j)
    \/ \E i \in Slots : DropCell(i)
    \/ \E i, j \in Slots : CloneCell(i, j)

----------------------------------------------------------------------------
(***************************************************************************)
(* List { active: [Option<Rgb>; COUNT], default: [Rgb; COUNT] }            *)
(* An Option<Rgb> is <<>> for None and <<color>> for Some(color).          *)
(***************************************************************************)

\* alacritty_terminal::term::color::COUNT: the 256 indexed colors and the
\* named colors after them.
COUNT == 269

\* The indices of both arrays.
Indices == 0..(COUNT - 1)

\* `NamedColor::X as usize`.
NamedColor ==
    [Black |-> 0, Red |-> 1, Green |-> 2, Yellow |-> 3, Blue |-> 4,
     Magenta |-> 5, Cyan |-> 6, White |-> 7,
     BrightBlack |-> 8, BrightRed |-> 9, BrightGreen |-> 10,
     BrightYellow |-> 11, BrightBlue |-> 12, BrightMagenta |-> 13,
     BrightCyan |-> 14, BrightWhite |-> 15,
     Foreground |-> 256, Background |-> 257, Cursor |-> 258,
     DimBlack |-> 259, DimRed |-> 260, DimGreen |-> 261, DimYellow |-> 262,
     DimBlue |-> 263, DimMagenta |-> 264, DimCyan |-> 265, DimWhite |-> 266,
     BrightForeground |-> 267, DimForeground |-> 268]

Rgb(r, g, b) == [r |-> r, g |-> g, b |-> b]

\* Rgb::default()
Rgb_default == Rgb(0, 0, 0)

\* DIM_FACTOR: f32 = 0.66, in hundredths.
DIM_FACTOR == 66

\* Rgb * f32 for the factor above: each channel is multiplied as f32,
\* clamped to 0.0..255.0 and cast to u8 (truncated).
Rgb_mul(color, factor) ==
    Rgb((color.r * factor) \div 100, (color.g * factor) \div 100,
        (color.b * factor) \div 100)

\* [value; len]: the array of len copies of value, indexed from 0.
array(value, len) == [idx \in 0..(len - 1) |-> value]

\* Option::unwrap_or
unwrap_or(option, other) == IF option = <<>> THEN other ELSE option[1]

\* colors.indexed_colors.iter().find(|ic| ic.index() == idx): the first
\* entry with that index, as an Option.
RECURSIVE find(_, _)
find(indexed_colors, idx) ==
    IF indexed_colors = <<>> THEN <<>>
    ELSE IF Head(indexed_colors).index = idx THEN <<Head(indexed_colors)>>
    ELSE find(Tail(indexed_colors), idx)

\* List::get as it would be without the active layer.
List_get_default(l, idx) == l.default[idx]

\* List::get
List_get(l, idx) == unwrap_or(l.active[idx], l.default[idx])

\* List::get_modified
List_get_modified(l, idx) == l.active[idx]

\* List::set
List_set(l, idx, color) == [l EXCEPT !.active[idx] = <<color>>]

\* List::reset
List_reset(l, idx) == [l EXCEPT !.active[idx] = <<>>]

\* The assignments of fill_named, in the order of the code, as
\* <<index, color>> pairs.
named_writes(colors) ==
    <<  <<NamedColor.Black, colors.normal.black>>,
        <<NamedColor.Red, colors.normal.red>>,
        <<NamedColor.Green, colors.normal.green>>,
        <<NamedColor.Yellow, colors.normal.yellow>>,
        <<NamedColor.Blue, colors.normal.blue>>,
        <<NamedColor.Magenta, colors.normal.magenta>>,
        <<NamedColor.Cyan, colors.normal.cyan>>,
        <<NamedColor.White, colors.normal.white>>,
        <<NamedColor.BrightBlack, colors.bright.black>>,
        <<NamedColor.BrightRed, colors.bright.red>>,
        <<NamedColor.BrightGreen, colors.bright.green>>,
        <<NamedColor.BrightYellow, colors.bright.yellow>>,
        <<NamedColor.BrightBlue, colors.bright.blue>>,
        <<NamedColor.BrightMagenta, colors.bright.magenta>>,
        <<NamedColor.BrightCyan, colors.bright.cyan>>,
        <<NamedColor.BrightWhite, colors.bright.white>>,
        <<NamedColor.BrightForeground,
          unwrap_or(colors.primary.bright_foreground,
                    colors.primary.foreground)>>,
        <<NamedColor.Foreground, colors.primary.foreground>>,
        <<NamedColor.Background, colors.primary.background>>,
        <<NamedColor.DimForeground,
          unwrap_or(colors.primary.dim_foreground,
                    Rgb_mul(colors.primary.foreground, DIM_FACTOR))>>  >>

\* The assignments of the `match colors.dim` of fill_named.
dim_writes(colors) ==
    LET dim == IF colors.dim # <<>> THEN colors.dim[1]
               ELSE [n \in DOMAIN colors.normal |->
                        Rgb_mul(colors.normal[n], DIM_FACTOR)]
    IN  <<  <<NamedColor.DimBlack, dim.black>>,
            <<NamedColor.DimRed, dim.red>>,
            <<NamedColor.DimGreen, dim.green>>,
            <<NamedColor.DimYellow, dim.yellow>>,
            <<NamedColor.DimBlue, dim.blue>>,
            <<NamedColor.DimMagenta, dim.magenta>>,
            <<NamedColor.DimCyan, dim.cyan>>,
            <<NamedColor.DimWhite, dim.white>>  >>

\* self.default[index] = color, for each pair in turn.
RECURSIVE assign(_, _)
assign(default, writes) ==
    IF writes = <<>> THEN default
    ELSE assign([default EXCEPT ![Head(writes)[1]] = Head(writes)[2]],
                Tail(writes))

\* List::fill_named
fill_named(l, colors) ==
    [l EXCEPT !.default =
        assign(l.default, named_writes(colors) \o dim_writes(colors))]

\* A level of the cube as a channel: `if r == 0 { 0 } else { r * 40 + 55 }`
\* in u8.
cube_channel(level) == IF level = 0 THEN 0 ELSE (level * 40 + 55) % 256

\* The body of the innermost loop of fill_cube.
cube_entry(colors, r, g, b, idx) ==
    LET indexed_color == find(colors.indexed_colors, idx % 256)
    IN  IF indexed_color # <<>> THEN indexed_color[1].color
        ELSE Rgb(cube_channel(r), cube_channel(g), cube_channel(b))

\* The levels of iteration n (from 0) of the loops `for r in 0..6 { for g
\* in 0..6 { for b in 0..6 {`: b runs fastest, r slowest.
cube_levels(n) == [r |-> n \div 36, g |-> (n \div 6) % 6, b |-> n % 6]

\* The array after the loops of fill_cube: index starts at 16 and grows
\* by one in every iteration, so iteration n writes default[16 + n].
cube_loops(default, colors) ==
    [idx \in DOMAIN default |->
        IF idx - 16 \in 0..215
          THEN LET level == cube_levels(idx - 16)
               IN  cube_entry(colors, level.r, level.g, level.b, idx)
          ELSE default[idx]]

\* List::fill_cube as it would be without the look-up in indexed_colors.
fill_cube_formula_only(l, colors) ==
    [l EXCEPT !.default =
        cube_loops(l.default, [colors EXCEPT !.indexed_colors = <<>>])]

\* List::fill_cube
fill_cube(l, colors) ==
    [l EXCEPT !.default = cube_loops(l.default, colors)]

\* The loop of fill_gray_ramp from position i on.
RECURSIVE gray_loop(_, _, _, _)
gray_loop(default, colors, i, idx) ==
    IF i = 24 THEN [default |-> default, index |-> idx]
    ELSE LET color_index == (16 + 216 + i) % 256
             indexed_color == find(colors.indexed_colors, color_index)
             value == (i * 10 + 8) % 256
         IN  gray_loop([default EXCEPT ![idx] =
                           IF indexed_color # <<>>
                             THEN indexed_color[1].color
                             ELSE Rgb(value, value, value)],
                       colors, i + 1, idx + 1)

\* List::fill_gray_ramp
fill_gray_ramp(l, colors) ==
    [l EXCEPT !.default = gray_loop(l.default, colors, 0, 232).default]

\* List::update_defaults as it would be if it started from a new List.
update_defaults_clearing(l, colors) ==
    fill_gray_ramp(fill_cube(fill_named(
        [l EXCEPT !.active = array(<<>>, COUNT)], colors), colors),
        colors)

\* List::update_defaults
update_defaults(l, colors) ==
    fill_gray_ramp(fill_cube(fill_named(l, colors), colors), colors)

\* impl From<&Colors> for List
List_from(colors) ==
    update_defaults([active |-> array(<<>>, COUNT),
                     default |-> array(Rgb_default, COUNT)], colors)

\* The Colors (themes) given to the List.  IndexedColor { index, color }.
IndexedColor(idx, color) == [index |-> idx, color |-> color]

Ansi(shade) ==
    [black |-> Rgb(shade, shade, shade), red |-> Rgb(200 + shade, 0, 0),
     green |-> Rgb(0, 200 + shade, 0), yellow |-> Rgb(200 + shade, 200, 0),
     blue |-> Rgb(0, 0, 200 + shade), magenta |-> Rgb(200, 0, 200 + shade),
     cyan |-> Rgb(0, 200, 200 + shade), white |-> Rgb(250, 250, 200 + shade)]

PlainColors ==
    [primary |-> [foreground |-> Rgb(150, 100, 50),
                  background |-> Rgb(0, 0, 0),
                  bright_foreground |-> <<>>, dim_foreground |-> <<>>],
     normal |-> Ansi(0), bright |-> Ansi(50), dim |-> <<>>,
     indexed_colors |-> <<>>]

\* Colors with the optional colors given and with indexed colors: for the
\* first and the last index of the cube and of the ramp, one index given
\* twice, and one index below the cube.
IndexedColors ==
    [primary |-> [foreground |-> Rgb(255, 255, 255),
                  background |-> Rgb(10, 10, 10),
                  bright_foreground |-> <<Rgb(255, 255, 0)>>,
                  dim_foreground |-> <<Rgb(90, 90, 90)>>],
     normal |-> Ansi(10), bright |-> Ansi(55), dim |-> <<Ansi(5)>>,
     indexed_colors |->
        << IndexedColor(16, Rgb(1, 1, 1)), IndexedColor(231, Rgb(2, 2, 2)),
           IndexedColor(232, Rgb(3, 3, 3)), IndexedColor(255, Rgb(4, 4, 4)),
           IndexedColor(16, Rgb(5, 5, 5)), IndexedColor(3, Rgb(6, 6, 6)),
           IndexedColor(100, Rgb(7, 7, 7)) >>]

Themes == {PlainColors, IndexedColors}

\* The indices and colors given to set and reset.
SetIndices == {NamedColor.Red, 16, 255, NamedColor.Foreground}
SetColors == {Rgb(17, 34, 51), Rgb(255, 0, 128)}

\* An operation on the List, its arguments, and the override at its index
\* before it.
PalOp(name, idx, color) ==
    [name |-> name, index |-> idx, color |-> color,
     had |-> list.active[idx]]

\* No List has been made (the state of the List where the model is about
\* another component).
PaletteNone ==
    /\ list = <<>>
    /\ applied = <<>>
    /\ pinned = <<>>
    /\ palop = <<>>

PaletteStart(colors) ==
    /\ list = List_from(colors)
    /\ applied = colors
    /\ pinned = array(<<>>, COUNT)
    /\ palop = [name |-> "from", index |-> 0, color |-> Rgb_default,
                had |-> <<>>]

PaletteSet(idx, color) ==
    /\ list' = List_set(list, idx, color)
    /\ pinned' = [pinned EXCEPT ![idx] = <<color>>]
    /\ palop' = PalOp("set", idx, color)
    /\ UNCHANGED <<applied, nonPaletteVars>>

PaletteReset(idx) ==
    /\ list' = List_reset(list, idx)
    /\ pinned' = [pinned EXCEPT ![idx] = <<>>]
    /\ palop' = PalOp("reset", idx, Rgb_default)
    /\ UNCHANGED <<applied, nonPaletteVars>>

UpdateDefaults(colors) ==
    /\ list' = update_defaults(list, colors)
    /\ applied' = colors
    /\ palop' = PalOp("update_defaults", 0, Rgb_default)
    /\ UNCHANGED <<pinned, nonPaletteVars>>

NextPalette ==
    \/ \E idx \in SetIndices, color \in SetColors : PaletteSet(idx, color)
    \/ \E idx \in SetIndices : PaletteReset(idx)
    \/ \E colors \in Themes : UpdateDefaults(colors)

----------------------------------------------------------------------------
(***************************************************************************)
(* Cell::as_escape(&self, buf: &mut String, last: Self)                    *)
(* A String is the sequence of its bytes, each a one-character string; the *)
(* bytes that Color::as_escape writes for a color are one opaque element.  *)
(***************************************************************************)

\* "\x1b["
CSI == <<"ESC", "[">>

\* Color::as_escape(self, buf, last, foreground) is not in these files.
\* By the description of the color-diff routine it writes nothing for a
\* color equal to last, and otherwise the code of the color, which like
\* every code here ends in ';'.
Color_as_escape(color, buf, last_color, foreground) ==
    IF color = last_color THEN buf
    ELSE buf \o <<IF foreground THEN "fg" ELSE "bg", color, ";">>

\* The step of an attribute as it would be if it wrote the code of the
\* attribute's state whether or not the state changed.
toggle_always(flags, last_flags, flag, on, off) ==
    IF flag \in flags THEN on ELSE off

\* `if x != last_x { if x { on } else if last_x { off } }`
toggle(flags, last_flags, flag, on, off) ==
    IF (flag \in flags) # (flag \in last_flags)
      THEN IF flag \in flags THEN on
           ELSE IF flag \in last_flags THEN off ELSE <<>>
      ELSE <<>>

\* The bold/dim step of as_escape.
bold_dim(flags, last_flags) ==
    LET last_bold == "BOLD" \in last_flags
        last_dim == "DIM" \in last_flags
        bold == "BOLD" \in flags
        dim == "DIM" \in flags
    IN  IF last_bold # bold \/ last_dim # dim
          THEN IF ~bold /\ ~dim THEN <<"2", "2", ";">>
               ELSE IF bold THEN <<"1", ";">>
               ELSE IF dim THEN <<"2", ";">>
               ELSE <<>>
          ELSE <<>>

\* The end of as_escape as it would be if the last byte were left as it
\* is.
finish_unterminated(buf, empty_len) ==
    IF Len(buf) = empty_len THEN SubSeq(buf, 1, empty_len - 2) ELSE buf

\* The end of as_escape as it would be if the introducer were never taken
\* back.
finish_terminating(buf, empty_len) == [buf EXCEPT ![Len(buf)] = "m"]

\* The end of as_escape, in both of its places: the introducer is removed
\* if nothing follows it, else the last byte becomes 'm'.
finish(buf, empty_len) ==
    IF Len(buf) = empty_len THEN SubSeq(buf, 1, empty_len - 2)
    ELSE [buf EXCEPT ![Len(buf)] = "m"]

\* Cell::as_escape: the buffer after the call.
as_escape(self, buf, last_cell) ==
    LET start == buf \o CSI
        empty_len == Len(start)
        colored == Color_as_escape(self.bg,
                       Color_as_escape(self.fg, start, last_cell.fg, TRUE),
                       last_cell.bg, FALSE)
    IN  IF self.flags = last_cell.flags THEN finish(colored, empty_len)
        ELSE finish(colored
                      \o bold_dim(self.flags, last_cell.flags)
                      \o toggle(self.flags, last_cell.flags, "ITALIC",
                                <<"3", ";">>, <<"2", "3", ";">>)
                      \o toggle(self.flags, last_cell.flags, "UNDERLINE",
                                <<"4", ";">>, <<"2", "4", ";">>)
                      \o toggle(self.flags, last_cell.flags, "INVERSE",
                                <<"7", ";">>, <<"2", "7", ";">>)
                      \o toggle(self.flags, last_cell.flags, "HIDDEN",
                                <<"8", ";">>, <<"2", "8", ";">>)
                      \o toggle(self.flags, last_cell.flags, "STRIKEOUT",
                                <<"9", ";">>, <<"2", "9", ";">>),
                    empty_len)

\* The flags that as_escape writes codes for.
Attributes ==
    {"BOLD", "DIM", "ITALIC", "UNDERLINE", "INVERSE", "HIDDEN", "STRIKEOUT"}

\* A cell with the given colors and flags.
Styled(fg, bg, flags) == [Cell_new("a", fg, bg) EXCEPT !.flags = flags]

\* The cells given to as_escape: every set of the flags above in the
\* default colors, some with a flag that has no code, some in other colors.
EscapeCells ==
    {Styled("Foreground", "Background", flags) : flags \in SUBSET Attributes}
    \cup {Styled("Foreground", "Background", flags \cup {"WRAPLINE"}) :
            flags \in {{}, {"BOLD"}}}
    \cup {Styled(fg, bg, flags) :
            fg \in {"Foreground", "Indexed1"},
            bg \in {"Background", "Indexed1"},
            flags \in {{}, {"BOLD"}}}

\* What the buffer holds before a call.
Buffers == {<<>>, <<"a">>}

EscapeStart(last_cell, buf) ==
    esc = [called |-> FALSE, self |-> last_cell, last |-> last_cell,
           before |-> buf, buf |-> buf]

\* self.as_escape(&mut buf, last)
AsEscape(self) ==
    /\ ~esc.called
    /\ esc' = [esc EXCEPT !.called = TRUE, !.self = self,
                          !.buf = as_escape(self, esc.before, esc.last)]
    /\ UNCHANGED nonEscapeVars

NextEscape == \E self \in EscapeCells : AsEscape(self)

----------------------------------------------------------------------------
(***************************************************************************)
(* impl LineLength for grid::Row<Cell>, in both versions of term/cell.rs.  *)
(* A cell of the older version has `extra: Option<NonzeroCharId>`; it is   *)
(* Some exactly when the cell holds extra chars (extra[1] is not a space). *)
(***************************************************************************)

\* Longest row given to line_length.
MaxLineCols == 4

\* Column(n), or the panic of an arithmetic overflow.
Column(n) == [kind |-> "column", n |-> n]
Overflow == [kind |-> "panic", n |-> 0]

\* self[..]: row.rs has no Index<RangeFull>.  A slice borrowed from &self
\* cannot materialize cells: it is a slice of the cells the row holds, the
\* backing vector.
full_range(r) == r.inner

\* `cell.c != ' ' || cell.extra[0] != ' '`
occupies(cell) == cell.c # " " \/ cell.extra[1] # " "

\* `cell.c != ' ' && cell.extra.is_some()`
old_occupies(cell) == cell.c # " " /\ cell.extra[1] # " "

\* The first index, counted from the back of the slice, of a cell that
\* the test of the version accepts (an Option).
rev_position(cells, old) ==
    LET found == {i \in 0..(Len(cells) - 1) :
                     IF old THEN old_occupies(cells[Len(cells) - i])
                     ELSE occupies(cells[Len(cells) - i])}
    IN  IF found = {} THEN <<>>
        ELSE <<CHOOSE i \in found : \A j \in found : i <= j>>

\* The body of both versions of line_length; they differ in the test of
\* the loop.  `self.len() - 1` of a row without columns panics where
\* overflow checks are compiled in and wraps otherwise; no cell is at the
\* wrapped index, so the index reads the template.
line_length_with(r, overflow_checks, old) ==
    IF Row_len(r) = 0 /\ overflow_checks THEN Overflow
    ELSE IF "WRAPLINE" \in
              (IF Row_len(r) = 0 THEN r.template
               ELSE index(r, Row_len(r) - 1)).flags
      THEN Column(Row_len(r))
    ELSE LET position == rev_position(full_range(r), old)
         IN  IF position = <<>> THEN Column(0)
             ELSE Column(Row_len(r) - position[1])

\* line_length of alacritty_terminal/src/term/cell.rs
line_length(r, overflow_checks) ==
    line_length_with(r, overflow_checks, FALSE)

\* line_length of src/term/cell.rs
old_line_length(r, overflow_checks) ==
    line_length_with(r, overflow_checks, TRUE)

\* The cells of the rows: a blank, a letter, a blank with WRAPLINE, a blank
\* with an extra char, and a letter with an extra char.
LineCells ==
    {DefaultCell, Letter,
     [DefaultCell EXCEPT !.flags = {"WRAPLINE"}],
     [DefaultCell EXCEPT !.extra[1] = "x"],
     [Letter EXCEPT !.extra[1] = "x"]}

\* The rows: any number of columns, and cells written to some of them from
\* the front; the template is the default cell.
LineRows ==
    {[inner |-> cells, columns |-> columns, template |-> DefaultCell] :
        columns \in 0..MaxLineCols,
        cells \in UNION {[1..k -> LineCells] : k \in 0..MaxLineCols}}

LineStart(r) ==
    /\ Len(r.inner) <= r.columns
    /\ line = [called |-> FALSE, row |-> r,
               length |-> Column(0), old_length |-> Column(0)]

\* row.line_length(), in a build with or without overflow checks.
LineLength(overflow_checks) ==
    /\ ~line.called
    /\ line' = [line EXCEPT
                  !.called = TRUE,
                  !.length = line_length(line.row, overflow_checks),
                  !.old_length = old_line_length(line.row, overflow_checks)]
    /\ UNCHANGED nonLineVars

NextLine == \E overflow_checks \in BOOLEAN : LineLength(overflow_checks)

----------------------------------------------------------------------------
(***************************************************************************)
(* ExtraCharStorage (src/term/extra_chars.rs): a HashMap behind its own    *)
(* std Mutex.  put, get and remove lock the Mutex first and hold the guard *)
(* to their end; the steps of put under the guard are separate steps, so   *)
(* that what the Mutex excludes shows.  A panic under the guard poisons    *)
(* the Mutex, and lock().unwrap() panics from then on.                     *)
(***************************************************************************)

\* The input thread and the render thread.
Workers == {1, 2}

\* The bit patterns a key can have: 0 is no NonZeroU16, but
\* new_unchecked(0) makes one of it.
StorageKeys == 0..MaxHandle

\* The SmallVec<[char; 5]> values stored.
SmallVecs == {<<"x">>, <<"x", "x">>}

\* The loop of put over the sorted keys, from next_key on: the first
\* pattern that is not a key.  `next_key.get() + 1` at the largest pattern
\* panics where overflow checks are compiled in and wraps to 0 otherwise;
\* the loop has then seen every key.
RECURSIVE put_scan(_, _, _)
put_scan(keys, next_key, overflow_checks) ==
    IF next_key \notin keys THEN [panic |-> FALSE, key |-> next_key]
    ELSE IF next_key = MaxHandle
      THEN [panic |-> overflow_checks, key |-> 0]
    ELSE put_scan(keys, next_key + 1, overflow_checks)

\* storage.get(index).map(|sv| sv.clone()): an Option
get(map, idx) == IF idx \in DOMAIN map THEN <<map[idx]>> ELSE <<>>

\* storage.remove(index)
remove(map, idx) == [h \in DOMAIN map \ {idx} |-> map[h]]

\* The locals of a thread that is in no call.
NoLocals == [c |-> <<>>, key |-> 0, seen |-> <<>>]

ExtraStart ==
    /\ storage = <<>>
    /\ holder = 0
    /\ step = [t \in Workers |-> "idle"]
    /\ local = [t \in Workers |-> NoLocals]
    /\ put_ret = [thread |-> 0, key |-> 0, occupied |-> FALSE]

\* The process has not aborted.
Alive == \A t \in Workers : step[t] # "aborted"

\* `self.storage.lock().unwrap()`, the first statement of put, get and
\* remove: the thread waits while another holds the Mutex, and panics if
\* the Mutex is poisoned.
StorageLock(t, name, c, key) ==
    /\ Alive
    /\ step[t] = "idle"
    /\ IF holder = -1
         THEN /\ step' = [step EXCEPT ![t] = "panicked"]
              /\ UNCHANGED <<storage, holder, local, put_ret>>
         ELSE /\ holder = 0
              /\ holder' = t
              /\ step' = [step EXCEPT ![t] = name]
              /\ local' = [local EXCEPT ![t] =
                              [NoLocals EXCEPT !.c = c, !.key = key]]
              /\ UNCHANGED <<storage, put_ret>>
    /\ UNCHANGED nonExtraVars

\* put: the block that computes next_key.  NonZeroU16::new_unchecked(0) is
\* undefined behaviour: a build that checks the precondition aborts the
\* process, any other goes on with the pattern 0.
PutScan(t, overflow_checks, ub_checks) ==
    /\ Alive
    /\ step[t] = "put"
    /\ LET scan == put_scan(DOMAIN storage, 0, overflow_checks) IN
       IF ub_checks
         THEN /\ step' = [u \in Workers |-> "aborted"]
              /\ UNCHANGED <<holder, local>>
         ELSE IF scan.panic
         THEN /\ step' = [step EXCEPT ![t] = "panicked"]
              /\ holder' = -1
              /\ local' = [local EXCEPT ![t] = NoLocals]
         ELSE /\ step' = [step EXCEPT ![t] = "scanned"]
              /\ local' = [local EXCEPT ![t].key = scan.key,
                                        ![t].seen = storage]
              /\ UNCHANGED holder
    /\ UNCHANGED <<storage, put_ret, nonExtraVars>>

\* put: storage.insert(next_key, c); next_key is returned and the guard
\* dropped.
PutInsert(t) ==
    /\ Alive
    /\ step[t] = "scanned"
    /\ storage' = insert(storage, local[t].key, local[t].c)
    /\ put_ret' = [thread |-> t, key |-> local[t].key,
                   occupied |-> local[t].key \in DOMAIN storage]
    /\ holder' = 0
    /\ step' = [step EXCEPT ![t] = "idle"]
    /\ local' = [local EXCEPT ![t] = NoLocals]
    /\ UNCHANGED nonExtraVars

\* get, under the guard: the Option it returns is kept in `c` until the
\* thread's next call.
Get(t) ==
    /\ Alive
    /\ step[t] = "get"
    /\ local' = [local EXCEPT ![t] =
                    [NoLocals EXCEPT !.c = get(storage, local[t].key)]]
    /\ holder' = 0
    /\ step' = [step EXCEPT ![t] = "idle"]
    /\ UNCHANGED <<storage, put_ret, nonExtraVars>>

\* remove, under the guard.
Remove(t) ==
    /\ Alive
    /\ step[t] = "remove"
    /\ storage' = remove(storage, local[t].key)
    /\ holder' = 0
    /\ step' = [step EXCEPT ![t] = "idle"]
    /\ local' = [local EXCEPT ![t] = NoLocals]
    /\ UNCHANGED <<put_ret, nonExtraVars>>

NextExtra ==
    \/ \E t \in Workers, c \in SmallVecs : StorageLock(t, "put", c, 0)
    \/ \E t \in Workers, key \in StorageKeys :
           StorageLock(t, "get", <<>>, key)
    \/ \E t \in Workers, key \in StorageKeys :
           StorageLock(t, "remove", <<>>, key)
    \/ \E t \in Workers, overflow_checks, ub_checks \in BOOLEAN :
           PutScan(t, overflow_checks, ub_checks)
    \/ \E t \in Workers : PutInsert(t)
    \/ \E t \in Workers : Get(t)
    \/ \E t \in Workers : Remove(t)

----------------------------------------------------------------------------
(***************************************************************************)
(* Cell::push_extra and Cell::chars (alacritty_terminal/src/term/cell.rs): *)
(* the extra chars of a cell, stored in the cell.                          *)
(***************************************************************************)

\* push_extra as it would be without the `break`.
push_extra_without_break(cell, c) ==
    [cell EXCEPT !.extra =
        [i \in 1..MAX_ZEROWIDTH_CHARS |->
            IF cell.extra[i] = " " THEN c ELSE cell.extra[i]]]

\* Cell::push_extra: the first element of `extra` that is a space
\* becomes c.
push_extra(cell, c) ==
    LET free == {i \in 1..MAX_ZEROWIDTH_CHARS : cell.extra[i] = " "} IN
    IF free = {} THEN cell
    ELSE [cell EXCEPT
            !.extra[CHOOSE i \in free : \A j \in free : i <= j] = c]

\* Cell::chars: c followed by the elements of `extra`.
chars(cell) == <<cell.c>> \o cell.extra

\* The cells that chars are pushed to, and the chars pushed.
PushCells ==
    {DefaultCell, Letter, Styled("Indexed1", "Background", {"BOLD"})}
PushChars == {"x", "y", " "}

PushStart(cell) ==
    pushing = [cell |-> cell, start |-> cell, pushed |-> <<>>,
               before |-> cell]

\* cell.push_extra(c), up to one push more than the cell has room for.
PushExtra(c) ==
    /\ Len(SelectSeq(pushing.pushed, LAMBDA p : p # " "))
           <= MAX_ZEROWIDTH_CHARS
    /\ Len(pushing.pushed) <= MAX_ZEROWIDTH_CHARS + 1
    /\ pushing' = [pushing EXCEPT
                      !.cell = push_extra(pushing.cell, c),
                      !.before = pushing.cell,
                      !.pushed = Append(pushing.pushed, c)]
    /\ UNCHANGED nonPushVars

NextPush == \E c \in PushChars : PushExtra(c)

----------------------------------------------------------------------------
(***************************************************************************)
(* Specifications.                                                         *)
(***************************************************************************)

SyncInit ==
    /\ SyncStart
    /\ RowStart(0, DefaultCell)
    /\ StoreStart
    /\ PaletteNone
    /\ EscapeStart(DefaultCell, <<>>)
    /\ LineStart(Row_new(0, DefaultCell))
    /\ ExtraStart
    /\ PushStart(DefaultCell)

SpecSync == SyncInit /\ [][NextSync]_vars

RowInit ==
    /\ SyncStart
    /\ StoreStart
    /\ PaletteNone
    /\ EscapeStart(DefaultCell, <<>>)
    /\ LineStart(Row_new(0, DefaultCell))
    /\ ExtraStart
    /\ PushStart(DefaultCell)
    /\ \E columns \in 0..MaxCols, t \in TemplateValues : RowStart(columns, t)

SpecRow == RowInit /\ [][NextRow]_vars

StoreInit == SyncInit

SpecStore == StoreInit /\ [][NextStore]_vars

PaletteInit ==
    /\ SyncStart
    /\ RowStart(0, DefaultCell)
    /\ StoreStart
    /\ EscapeStart(DefaultCell, <<>>)
    /\ LineStart(Row_new(0, DefaultCell))
    /\ ExtraStart
    /\ PushStart(DefaultCell)
    /\ \E colors \in Themes : PaletteStart(colors)

SpecPalette == PaletteInit /\ [][NextPalette]_vars

EscapeInit ==
    /\ SyncStart
    /\ RowStart(0, DefaultCell)
    /\ StoreStart
    /\ PaletteNone
    /\ LineStart(Row_new(0, DefaultCell))
    /\ ExtraStart
    /\ PushStart(DefaultCell)
    /\ \E last_cell \in EscapeCells, buf \in Buffers :
          EscapeStart(last_cell, buf)

SpecEscape == EscapeInit /\ [][NextEscape]_vars

LineInit ==
    /\ SyncStart
    /\ RowStart(0, DefaultCell)
    /\ StoreStart
    /\ PaletteNone
    /\ EscapeStart(DefaultCell, <<>>)
    /\ ExtraStart
    /\ PushStart(DefaultCell)
    /\ \E r \in LineRows : LineStart(r)

SpecLine == LineInit /\ [][NextLine]_vars

ExtraInit == SyncInit

SpecExtra == ExtraInit /\ [][NextExtra]_vars

PushInit ==
    /\ SyncStart
    /\ RowStart(0, DefaultCell)
    /\ StoreStart
    /\ PaletteNone
    /\ EscapeStart(DefaultCell, <<>>)
    /\ LineStart(Row_new(0, DefaultCell))
    /\ ExtraStart
    /\ \E cell \in PushCells : PushStart(cell)

SpecPush == PushInit /\ [][NextPush]_vars

----------------------------------------------------------------------------
(***************************************************************************)
(* Properties of FairMutex (checked under SpecSync).                       *)
(***************************************************************************)

\* C1: fairness.  A thread that released the lock while other threads were
\* blocked in lock() does not get the lock back through lock() before each
\* of those threads has acquired it: whenever a thread obtains a guard
\* through lock(), no thread that was already waiting at its last release
\* is still waiting.
C1_NoJumpAhead ==
    [][\A t \in Threads :
          (pc[t] # "holding" /\ pc'[t] = "holding" /\ via'[t] = "lock")
              => ahead[t] = {}]_vars

\* C2: mutual exclusion.  At most one thread holds a guard, however it was
\* obtained, and the mutex is locked while a guard exists.
C2_MutualExclusion ==
    /\ Cardinality(Holders) <= 1
    /\ Holders # {} => locked

\* C2 witness: one thread holds a guard obtained through try_lock() while a
\* second is blocked in lock() and a third was just refused by try_lock().
C2_Witness ==
    \E t, u \in Threads :
        /\ t # u
        /\ pc[t] = "holding" /\ via[t] = "try_lock"
        /\ pc[u] = "parked"
        /\ tried[2] = "None" /\ tried[1] \notin {t, u}

----------------------------------------------------------------------------
(***************************************************************************)
(* Properties of Row (checked under SpecRow).                              *)
(***************************************************************************)

\* The columns of a row.
Columns(r) == 0..(Row_len(r) - 1)

\* C3: the number of materialized cells never exceeds the column count.
C3_BackingWithinColumns == Len(row.inner) <= row.columns

\* C3 witness: a shrink that cut materialized cells off left the backing
\* storage exactly as long as the new, non-zero column count.
C3_Witness ==
    /\ op.name = "shrink"
    /\ Len(prev.inner) > op.n
    /\ Len(row.inner) = row.columns
    /\ row.columns > 0

\* C4: while only grow, shrink, index writes and iter_mut have been applied
\* since creation, len() is the column count of the most recent new, grow
\* or shrink.
C4_LenIsColumnCount == sized # -1 => Row_len(row) = sized

\* C4 witness: after a grow of a row with some, but not all, of its columns
\* materialized, len() is the grown count.
C4_Witness ==
    /\ sized # -1
    /\ op.name = "grow"
    /\ Len(row.inner) > 0
    /\ Len(row.inner) < Row_len(row)
    /\ Row_len(row) = op.n

\* C5: iter_mut() and last_mut() materialize the implicit columns without
\* changing what is read at any column, is_empty() or occupied().
C5_MaterializeUnobservable ==
    op.name \in {"iter_mut", "last_mut"} =>
        /\ Row_len(row) = Row_len(prev)
        /\ \A c \in Columns(prev) : index(row, c) = index(prev, c)
        /\ Row_is_empty(row) = Row_is_empty(prev)
        /\ occupied(row) = occupied(prev)

\* The row of the shrink scenario: 10 columns, column 5 written.
ScenarioRow == index_mut(Row_new(10, DefaultCell), 5, Letter)

\* C6: shrink(n) sets the column count to n.  With a backing length of at
\* most n it returns nothing and keeps the backing storage.  Otherwise the
\* backing storage keeps its first n cells and the removed cells are
\* returned up to the last non-empty one: nothing if all of them are empty,
\* else a non-empty sequence that is a prefix of the removed cells, ends in
\* a non-empty cell and is followed by empty removed cells only.  In the
\* scenario shrink(6) returns nothing and shrink(3) the cells of columns
\* 3..5.
C6_Shrink ==
    /\ op.name = "shrink" =>
          LET n == op.n
              L == Len(prev.inner)
              removed == SubSeq(prev.inner, n + 1, L)
          IN  /\ row.columns = n
              /\ row.template = prev.template
              /\ L <= n => ret = None /\ row.inner = prev.inner
              /\ L > n =>
                    /\ row.inner = SubSeq(prev.inner, 1, n)
                    /\ ret.kind \in {"None", "Some"}
                    /\ ret.kind = "None" <=>
                          \A i \in 1..Len(removed) : Cell_is_empty(removed[i])
                    /\ ret.kind = "Some" =>
                          /\ ret.cells # <<>>
                          /\ Len(ret.cells) <= Len(removed)
                          /\ ~Cell_is_empty(ret.cells[Len(ret.cells)])
                          /\ \A i \in 1..Len(ret.cells) :
                                ret.cells[i] = removed[i]
                          /\ \A i \in 1..Len(removed) :
                                ~Cell_is_empty(removed[i]) =>
                                    /\ i <= Len(ret.cells)
                                    /\ ret.cells[i] = index(prev, n + i - 1)
    /\ shrink(ScenarioRow, 6).ret = None
    /\ Row_len(shrink(ScenarioRow, 6).row) = 6
    /\ shrink(ScenarioRow, 3).ret = Some(<<DefaultCell, DefaultCell, Letter>>)
    /\ shrink(ScenarioRow, 3).ret.cells =
          [i \in 1..3 |-> index(ScenarioRow, 3 + i - 1)]

\* C6 witness: a shrink returned fewer cells than it removed, an empty cell
\* that is not the template among the dropped ones.
C6_Witness ==
    /\ op.name = "shrink"
    /\ ret.kind = "Some"
    /\ Len(ret.cells) < Len(prev.inner) - op.n
    /\ prev.inner[Len(prev.inner)] = TabCell
    /\ prev.template = Tinted

\* C7: front_split_off(at) with at <= len() returns the at cells read at
\* columns 0..at-1 before the call, decreases len() by at, and every column
\* c left reads what column c + at read before.
C7_FrontSplitOff ==
    (op.name = "front_split_off" /\ op.n <= Row_len(prev)) =>
        /\ ret.kind = "Vec"
        /\ Len(ret.cells) = op.n
        /\ \A c \in 0..(op.n - 1) : ret.cells[c + 1] = index(prev, c)
        /\ Row_len(row) = Row_len(prev) - op.n
        /\ \A c \in Columns(row) : index(row, c) = index(prev, c + op.n)

\* C7 witness: a split inside a row whose split-off part was partly
\* implicit (template not empty), with columns left over.
C7_Witness ==
    /\ op.name = "front_split_off"
    /\ ret.kind = "Vec"
    /\ op.n > Len(prev.inner)
    /\ Len(prev.inner) > 0
    /\ op.n < Row_len(prev)
    /\ prev.template = Tinted

\* C8 as stated: front_split_off(at) with at > len() hands the caller an
\* InvalidSplitPoint result and never panics.
C8_RecoverableFailure ==
    (op.name = "front_split_off" /\ op.n > Row_len(prev)) =>
        ret.kind = "InvalidSplitPoint"

\* C8 as the code has it: front_split_off(at) with at > len() panics (as
\* its documentation says); nothing is returned to the caller.
C8_SplitBeyondLenPanics ==
    /\ (op.name = "front_split_off" /\ op.n > Row_len(prev)) =>
          ret.kind = "panic"
    /\ ret.kind = "panic" =>
          (op.name = "front_split_off" /\ op.n > Row_len(prev))

\* C8 witness: a split point beyond the length of a row with columns.
C8_Witness ==
    /\ op.name = "front_split_off"
    /\ op.n > Row_len(prev)
    /\ Row_len(prev) > 0
    /\ ret.kind = "panic"

----------------------------------------------------------------------------
(***************************************************************************)
(* Properties of the NonzeroCharId store (checked under SpecStore).        *)
(***************************************************************************)

\* The lowest handle outside a set of handles (MaxHandle + 1 if none).
LowestOutside(S) ==
    CHOOSE h \in 1..(MaxHandle + 1) :
        /\ h \notin S
        /\ \A g \in 1..(h - 1) : g \in S

\* C9: an allocation returns the lowest handle that no cell owned when it
\* was made; in particular a handle whose owner was dropped or reset is the
\* next one allocated when it is the lowest such.
C9_LowestUnusedHandle ==
    did.allocated # 0 => did.allocated = LowestOutside(did.held)

\* C10: the entries of the map are exactly the handles owned by cells (an
\* entry is there while its owner is, and gone once the owner was dropped
\* or reset), and dropping or resetting an owner does not stop the thread.
C10_EntryLifetime ==
    /\ Keys = Held
    /\ did.outcome # "NOOO"

\* The live cells that own handle h.
Owners(h) == {i \in Slots : owners[i].live /\ owners[i].extra = h}

\* C11: every handle that a cell refers to is owned by exactly one live
\* cell and has its entry in the map, so no drop of another cell has
\* removed it; the cell written by a clone holds no handle, and a clone of
\* an ExtraCharStorageIndex holds none either.
C11_SingleOwnership ==
    /\ \A h \in Held : Cardinality(Owners(h)) = 1 /\ h \in Keys
    /\ did.clone # 0 => owners[did.clone].extra = 0
    /\ \A idx \in 0..MaxHandle : ExtraCharStorageIndex_clone(idx) = 0

\* C11 witness: a cell that owns a handle was cloned into another slot and
\* still owns its handle.
C11_Witness ==
    /\ did.clone # 0
    /\ owners[did.clone].live
    /\ \E j \in Slots \ {did.clone} : owners[j].live /\ owners[j].extra # 0

\* C12: an allocation with every handle in use returns an error to its
\* caller: no thread panics on it, and the map stays usable afterwards.
C12_ExhaustionIsAnError ==
    /\ did.outcome # "exceeded maximum"
    /\ ~poisoned

----------------------------------------------------------------------------
(***************************************************************************)
(* Properties of the color List (checked under SpecPalette).               *)
(***************************************************************************)

\* C13: get(i) is the override of slot i when one is set and the default of
\* slot i otherwise; right after set(i, C), get(i) is C; right after
\* reset(i), get(i) is the default that the most recent update_defaults
\* (or the construction) computed for i.
C13_Layering ==
    /\ \A i \in Indices :
          List_get(list, i) = IF list.active[i] # <<>> THEN list.active[i][1]
                              ELSE list.default[i]
    /\ palop.name = "set" => List_get(list, palop.index) = palop.color
    /\ palop.name = "reset" =>
          List_get(list, palop.index)
              = List_from(applied).default[palop.index]

\* C13 witness: an override of slot 16 set earlier has just been reset, and
\* get(16) is the indexed color that the theme gives for 16.
C13_Witness ==
    /\ palop.name = "reset"
    /\ palop.index = 16
    /\ palop.had # <<>>
    /\ applied = IndexedColors
    /\ List_get(list, 16) = Rgb(1, 1, 1)

\* C14: a slot whose override was set and not reset since returns that
\* override from get, whatever update_defaults calls came in between; the
\* override layer is exactly what the set and reset calls made it.
C14_OverridesSurvive ==
    /\ \A i \in Indices :
          pinned[i] # <<>> => List_get(list, i) = pinned[i][1]
    /\ list.active = pinned

\* C14 witness: update_defaults has just run with a theme that changes the
\* default of slot 16 while slot 16 has an override.
C14_Witness ==
    /\ palop.name = "update_defaults"
    /\ applied = IndexedColors
    /\ pinned[16] # <<>>
    /\ list.default[16] = Rgb(1, 1, 1)
    /\ List_get(list, 16) = pinned[16][1]

\* The colors that the indexed colors of a theme give for an index.
Overrides(colors, i) ==
    {colors.indexed_colors[n].color :
        n \in {m \in DOMAIN colors.indexed_colors :
                  colors.indexed_colors[m].index = i}}

\* The default of slot i is the theme's color for i if it has one, and the
\* given color otherwise.
DefaultIs(i, color) ==
    IF Overrides(applied, i) # {}
      THEN list.default[i] \in Overrides(applied, i)
      ELSE list.default[i] = color

Channel(level) == IF level = 0 THEN 0 ELSE level * 40 + 55

\* C15: with the theme of the most recent update_defaults, the default of
\* 16 + 36r + 6g + b is the theme's indexed color for it if there is one,
\* else the cube color of the levels r, g, b; the default of 232 + k is
\* the theme's indexed color if there is one, else k*10 + 8 on all three
\* channels; every channel is in 0..255; and fill_cube and fill_gray_ramp
\* write no index outside 16..255.
C15_IndexedDefaults ==
    /\ \A r, g, b \in 0..5 :
          DefaultIs(16 + 36 * r + 6 * g + b,
                    Rgb(Channel(r), Channel(g), Channel(b)))
    /\ \A k \in 0..23 :
          DefaultIs(232 + k, Rgb(k * 10 + 8, k * 10 + 8, k * 10 + 8))
    /\ \A i \in 16..255 :
          /\ list.default[i].r \in 0..255
          /\ list.default[i].g \in 0..255
          /\ list.default[i].b \in 0..255
    /\ \A colors \in Themes, i \in Indices \ (16..255) :
          fill_gray_ramp(fill_cube(list, colors), colors).default[i]
              = list.default[i]

\* C15 witness: update_defaults has just run with the theme that has
\* indexed colors; slot 231 has the theme's color and slot 17 the cube's.
C15_Witness ==
    /\ palop.name = "update_defaults"
    /\ applied = IndexedColors
    /\ list.default[231] = Rgb(2, 2, 2)
    /\ list.default[17] = Rgb(0, 0, 95)
    /\ list.default[233] = Rgb(18, 18, 18)

----------------------------------------------------------------------------
(***************************************************************************)
(* Properties of Cell::as_escape (checked under SpecEscape).               *)
(***************************************************************************)

\* C16: as_escape of a cell against a last cell with the same foreground,
\* background and flags leaves the buffer as it was before the call.
C16_SameStyleAppendsNothing ==
    (/\ esc.called
     /\ esc.self.fg = esc.last.fg
     /\ esc.self.bg = esc.last.bg
     /\ esc.self.flags = esc.last.flags) => esc.buf = esc.before

\* C16 witness: as_escape was called on a buffer that is not empty, with
\* two bold cells in the same colors, not the default ones.
C16_Witness ==
    /\ esc.called
    /\ esc.before # <<>>
    /\ esc.self.fg = "Indexed1" /\ esc.last.fg = "Indexed1"
    /\ esc.self.bg = esc.last.bg
    /\ esc.self.flags = {"BOLD"} /\ esc.last.flags = {"BOLD"}

\* The bytes that the call appended.
Appended == SubSeq(esc.buf, Len(esc.before) + 1, Len(esc.buf))

\* The parameters of a control sequence, from the bytes after its
\* introducer: each ends at a ';' or at the final 'm'.
RECURSIVE Parameters(_, _, _)
Parameters(bytes, current, done) ==
    IF bytes = <<>> THEN done
    ELSE IF Head(bytes) \in {";", "m"}
      THEN Parameters(Tail(bytes), <<>>, Append(done, current))
    ELSE Parameters(Tail(bytes), Append(current, Head(bytes)), done)

\* The standard meaning of an SGR parameter for the seven attributes.
Sgr(state, parameter) ==
    CASE parameter = <<"1">> -> state \cup {"BOLD"}
      [] parameter = <<"2">> -> state \cup {"DIM"}
      [] parameter = <<"2", "2">> -> state \ {"BOLD", "DIM"}
      [] parameter = <<"3">> -> state \cup {"ITALIC"}
      [] parameter = <<"2", "3">> -> state \ {"ITALIC"}
      [] parameter = <<"4">> -> state \cup {"UNDERLINE"}
      [] parameter = <<"2", "4">> -> state \ {"UNDERLINE"}
      [] parameter = <<"7">> -> state \cup {"INVERSE"}
      [] parameter = <<"2", "7">> -> state \ {"INVERSE"}
      [] parameter = <<"8">> -> state \cup {"HIDDEN"}
      [] parameter = <<"2", "8">> -> state \ {"HIDDEN"}
      [] parameter = <<"9">> -> state \cup {"STRIKEOUT"}
      [] parameter = <<"2", "9">> -> state \ {"STRIKEOUT"}
      [] OTHER -> state

RECURSIVE Render(_, _)
Render(state, parameters) ==
    IF parameters = <<>> THEN state
    ELSE Render(Sgr(state, Head(parameters)), Tail(parameters))

\* The attributes of a stream in the given state after the bytes.
Rendered(state, bytes) ==
    IF bytes = <<>> THEN state
    ELSE Render(state,
                Parameters(SubSeq(bytes, Len(CSI) + 1, Len(bytes)),
                           <<>>, <<>>))

\* C17: a stream whose seven attributes are those of last has, after the
\* bytes that as_escape appended, the seven attributes of the cell.
C17_ReachesCellAttributes ==
    esc.called =>
        Rendered(esc.last.flags \cap Attributes, Appended)
            = esc.self.flags \cap Attributes

----------------------------------------------------------------------------
(***************************************************************************)
(* Properties of line_length (checked under SpecLine).                     *)
(***************************************************************************)

\* The cell holds a primary char that is not a space, or extra chars.
Written(cell) == cell.c # " " \/ cell.extra[1] # " "

\* The length that C18 gives for a row.
ExpectedLength(r) ==
    LET written == {c \in 0..(Row_len(r) - 1) : Written(index(r, c))}
    IN  IF Row_len(r) > 0 /\ "WRAPLINE" \in index(r, Row_len(r) - 1).flags
          THEN Row_len(r)
        ELSE IF written = {} THEN 0
        ELSE 1 + CHOOSE c \in written : \A d \in written : d <= c

\* C18: line_length returns the column count when the cell in the last
\* column has WRAPLINE; otherwise one plus the column of the last cell
\* with a primary char other than a space or with extra chars, and 0
\* without such a cell; 6 for the row of 10 columns whose column 5 is 'a'.
\* Both versions of line_length are held to it.
C18_LineLength ==
    /\ line.called =>
          /\ line.length = Column(ExpectedLength(line.row))
          /\ line.old_length = Column(ExpectedLength(line.row))
          /\ \A overflow_checks \in BOOLEAN :
                /\ line_length(ScenarioRow, overflow_checks) = Column(6)
                /\ old_line_length(ScenarioRow, overflow_checks) = Column(6)

----------------------------------------------------------------------------
(***************************************************************************)
(* Further properties of FairMutex (SpecSync) and of Row (SpecRow).        *)
(***************************************************************************)

\* C19: try_lock() never blocks.  The caller of try_lock() is not waiting
\* afterwards; if some thread holds the mutex the call returns None and
\* the holder, the waiting threads and the queue are as before; if none
\* holds it the call returns Some and the caller is the holder.  A thread
\* only comes to wait by calling lock().
C19_TryLockNeverBlocks ==
    [][\A t \in Threads :
          /\ TryLock(t) =>
                /\ pc'[t] \in {"idle", "holding"}
                /\ Holders # {} =>
                      /\ tried' = <<t, "None">>
                      /\ pc' = pc /\ parked' = parked /\ locked' = locked
                /\ Holders = {} =>
                      /\ tried' = <<t, "Some">>
                      /\ Holders' = {t}
          /\ (pc[t] = "idle" /\ pc'[t] \in {"parked", "woken"}) => Lock(t)
      ]_vars

\* C19 witness: try_lock() has returned None to a thread while a second
\* held the mutex through lock() and a third was parked in lock().
C19_Witness ==
    \E t, u, v \in Threads :
        /\ tried = <<t, "None">> /\ pc[t] = "idle"
        /\ pc[u] = "holding" /\ via[u] = "lock"
        /\ parked = <<v>>

\* C20: a read at column c returns the cell of the backing vector when c
\* is below its length and the template otherwise, and leaves the row as it
\* was; a write at a column c below len() leaves the backing vector with
\* max(old length, c + 1) cells, len() as it was, and every other column
\* reading as before (the written column reads as the cell written).
C20_ColumnIndexing ==
    /\ op.name = "index" =>
          /\ row = prev
          /\ ret = Vec(<<IF op.n < Len(prev.inner) THEN prev.inner[op.n + 1]
                         ELSE prev.template>>)
    /\ op.name = "index_mut" =>
          /\ Len(row.inner) = Max(Len(prev.inner), op.n + 1)
          /\ Row_len(row) = Row_len(prev)
          /\ index(row, op.n) = op.cell
          /\ \A c \in 0..MaxCols : c # op.n => index(row, c) = index(prev, c)

\* C20 witness: a write two columns beyond the backing vector, in a row
\* with a column after the written one.
C20_Witness ==
    /\ op.name = "index_mut"
    /\ Len(prev.inner) + 1 = op.n
    /\ op.n + 1 < Row_len(row)
    /\ op.cell = Letter

----------------------------------------------------------------------------
(***************************************************************************)
(* Further properties of Row (checked under SpecRow).                      *)
(***************************************************************************)

\* C21: reset_from(at, template) with at <= len() resets only the cells
\* from column `at` onwards: afterwards every column c >= at reads as the
\* new template, every column c < at reads as before the call, and len()
\* is unchanged.
C21_ResetFromKeepsFront ==
    (op.name = "reset_from" /\ op.n <= Row_len(prev)) =>
        /\ Row_len(row) = Row_len(prev)
        /\ \A c \in Columns(row) :
              IF c >= op.n THEN index(row, c) = op.cell
              ELSE index(row, c) = index(prev, c)

----------------------------------------------------------------------------
(***************************************************************************)
(* Further properties of as_escape (checked under SpecEscape).             *)
(***************************************************************************)

\* The code of one attribute for C24: nothing if its state is the same in
\* both flag sets, else the code for on or for off.
Changed(flags, last_flags, flag, on, off) ==
    IF (flag \in flags) = (flag \in last_flags) THEN <<>>
    ELSE IF flag \in flags THEN <<on>> ELSE <<off>>

\* The attribute codes that C24 gives for a change of flags, in its order.
AttributeCodes(flags, last_flags) ==
    (IF flags \cap {"BOLD", "DIM"} = last_flags \cap {"BOLD", "DIM"}
       THEN <<>>
     ELSE IF flags \cap {"BOLD", "DIM"} = {} THEN << <<"2", "2">> >>
     ELSE IF "BOLD" \in flags THEN << <<"1">> >>
     ELSE << <<"2">> >>)
    \o Changed(flags, last_flags, "ITALIC", <<"3">>, <<"2", "3">>)
    \o Changed(flags, last_flags, "UNDERLINE", <<"4">>, <<"2", "4">>)
    \o Changed(flags, last_flags, "INVERSE", <<"7">>, <<"2", "7">>)
    \o Changed(flags, last_flags, "HIDDEN", <<"8">>, <<"2", "8">>)
    \o Changed(flags, last_flags, "STRIKEOUT", <<"9">>, <<"2", "9">>)

\* The number of color codes of a call: one per color that changed.
ColorCodes ==
    (IF esc.self.fg = esc.last.fg THEN 0 ELSE 1)
    + (IF esc.self.bg = esc.last.bg THEN 0 ELSE 1)

\* C24: when the flags of the cell differ from those of last, as_escape
\* appends, after the color codes, the codes of the attributes whose state
\* changed, in the order bold/dim, italic, underline, inverse, hidden,
\* strikeout: 22 if neither bold nor dim is set, 1 if bold is set, 2 if
\* only dim is set, and 3/23, 4/24, 7/27, 8/28, 9/29 for on/off.  With no
\* color code and no attribute code nothing is appended; otherwise what is
\* appended starts with the introducer and ends with 'm'.
C24_AttributeCodes ==
    (esc.called /\ esc.self.flags # esc.last.flags) =>
        LET codes == AttributeCodes(esc.self.flags, esc.last.flags)
            parameters == Parameters(SubSeq(Appended, Len(CSI) + 1,
                                            Len(Appended)), <<>>, <<>>)
        IN  IF ColorCodes = 0 /\ codes = <<>> THEN esc.buf = esc.before
            ELSE /\ SubSeq(esc.buf, 1, Len(esc.before)) = esc.before
                 /\ SubSeq(Appended, 1, Len(CSI)) = CSI
                 /\ Appended[Len(Appended)] = "m"
                 /\ Len(parameters) = ColorCodes + Len(codes)
                 /\ SubSeq(parameters, ColorCodes + 1, Len(parameters))
                        = codes

\* C24 witness: from bold and underline to dim and italic, in the same
\* colors: the codes 2, 3 and 24.
C24_Witness ==
    /\ esc.called
    /\ esc.last.flags = {"BOLD", "UNDERLINE"}
    /\ esc.self.flags = {"DIM", "ITALIC"}
    /\ Appended = CSI \o <<"2", ";", "3", ";", "2", "4", "m">>

\* C29: as_escape only appends to the buffer.  The bytes the buffer held
\* before the call are unchanged; what is appended is either nothing or
\* one sequence: the introducer ESC '[', at least one parameter, and a
\* final 'm', with no ';' right before the 'm' and no other ESC or 'm' in
\* it.
C29_AppendsOneSequence ==
    esc.called =>
        /\ Len(esc.buf) >= Len(esc.before)
        /\ SubSeq(esc.buf, 1, Len(esc.before)) = esc.before
        /\ \/ Appended = <<>>
           \/ /\ Len(Appended) > Len(CSI) + 1
              /\ SubSeq(Appended, 1, Len(CSI)) = CSI
              /\ Appended[Len(Appended)] = "m"
              /\ Appended[Len(Appended) - 1] # ";"
              /\ \A i \in (Len(CSI) + 1)..(Len(Appended) - 1) :
                    Appended[i] \notin {"ESC", "m"}

\* C29 witness: a call on a buffer that is not empty appended a sequence
\* with a color code and two attribute codes.
C29_Witness ==
    /\ esc.called
    /\ esc.before # <<>>
    /\ esc.self.fg # esc.last.fg
    /\ esc.self.flags = {"BOLD"}
    /\ esc.last.flags = {"ITALIC"}
    /\ Appended[Len(Appended)] = "m"

----------------------------------------------------------------------------
(***************************************************************************)
(* Properties of ExtraCharStorage (checked under SpecExtra).               *)
(***************************************************************************)

\* C25: the handle a put returned is within 1..MaxHandle (1..65535 in the
\* program) and was not the key of an entry of the map when it was issued,
\* so that the insert replaced no entry.
C25_HandlesArePositiveAndFresh ==
    put_ret.thread # 0 =>
        /\ put_ret.key \in Handles
        /\ ~put_ret.occupied

\* C26: the operations on the map exclude each other.  A thread inside
\* put, get or remove holds the Mutex and no other thread is inside one;
\* between the scan of a put and its insert the map does not change; and
\* so the handle a put returns is not the key of an entry that is in the
\* map when it is issued: two allocations return different handles and
\* both entries are in the map afterwards.
C26_StoreOperationsAtomic ==
    /\ \A t \in Workers :
          step[t] \in {"put", "scanned", "get", "remove"} => holder = t
    /\ \A t \in Workers : step[t] = "scanned" => storage = local[t].seen
    /\ put_ret.thread # 0 => ~put_ret.occupied

----------------------------------------------------------------------------
(***************************************************************************)
(* Properties of Cell::push_extra and Cell::chars (checked under SpecPush).*)
(***************************************************************************)

\* The chars pushed so far that are not spaces.
Pushed == SelectSeq(pushing.pushed, LAMBDA p : p # " ")

\* C27: after pushes of k chars other than a space, chars() is the
\* primary char, the first min(k, 5) of those chars in the order they were
\* pushed, and spaces up to the 5 slots; a push to a cell whose 5 slots
\* are all taken leaves the cell as it was; the primary char, the colors
\* and the flags are those the cell started with.
C27_InlineExtraChars ==
    LET k == Min(Len(Pushed), MAX_ZEROWIDTH_CHARS) IN
    /\ chars(pushing.cell) =
          <<pushing.start.c>> \o SubSeq(Pushed, 1, k)
              \o [i \in 1..(MAX_ZEROWIDTH_CHARS - k) |-> " "]
    /\ (\A i \in 1..MAX_ZEROWIDTH_CHARS : pushing.before.extra[i] # " ")
          => pushing.cell = pushing.before
    /\ pushing.cell.c = pushing.start.c
    /\ pushing.cell.fg = pushing.start.fg
    /\ pushing.cell.bg = pushing.start.bg
    /\ pushing.cell.flags = pushing.start.flags

\* C27 witness: six chars were pushed to a bold letter in a color; the
\* cell holds the first five in order.
C27_Witness ==
    /\ pushing.pushed = <<"x", "y", "y", "x", "y", "x">>
    /\ pushing.start.flags = {"BOLD"}
    /\ chars(pushing.cell) = <<"a", "x", "y", "y", "x", "y">>
    /\ pushing.cell = pushing.before

----------------------------------------------------------------------------
(***************************************************************************)
(* The round trip of front_split_off and append_front (checked under       *)
(* SpecRow).                                                               *)
(***************************************************************************)

\* C28: front_split_off(at) with at <= len(), followed by append_front of
\* the cells it returned, restores the row: len() and the value read at
\* every column are those before the split.
C28_SplitAppendRoundTrip ==
    [][(/\ op.name = "front_split_off"
        /\ ret.kind = "Vec"
        /\ RowAppendFront(ret.cells))
           => /\ Row_len(row') = Row_len(prev)
              /\ \A c \in Columns(prev) : index(row', c) = index(prev, c)
      ]_vars

====
